---- MODULE Spec2Model ----
(***************************************************************************)
(* A model of check-doc-conventions.py: the line classifier (RustLine),    *)
(* the source model (SourceFile), the four registered lints and the        *)
(* runner at the bottom of the script.                                     *)
(*                                                                         *)
(* Text is a sequence of one-character strings, so that strip, startswith, *)
(* find, split and the str predicates are computed the way Python          *)
(* computes them.  Line numbers ln are 0-based as in the script; the       *)
(* line lines[ln] of the script is lines[ln + 1] here.                     *)
(***************************************************************************)
EXTENDS Integers, Sequences, FiniteSets, TLC

VARIABLES
    pc,          \* position of the runner / of the round-trip harness
    readable,    \* whether open(file_path, "r") succeeds
    file,        \* the raw lines of the file read so far
    lines,       \* SourceFile.lines being built: a sequence of RustLine
    in_doctest,  \* the local flag of SourceFile.__init__
    lint_idx,    \* index into lints of the next lint to run
    output,      \* what has been printed: one record per alert
    exception    \* the uncaught exception that ended the run, or "none"

vars == <<pc, readable, file, lines, in_doctest, lint_idx, output, exception>>

----------------------------------------------------------------------------
(* Bounds of the model. *)

\* Longest file (in lines) the runner scans.
MaxLines == 3

\* Longest raw line of the exhaustive round-trip specification.
MaxRawLen == 4

----------------------------------------------------------------------------
(* Python str operations, on sequences of characters. *)

Whitespace == {" ", "\t", "\n"}

\* The backquote character, which a TLA+ string cannot hold: text holds this
\* token wherever the script's text holds a backquote.
Backquote == "BACKQUOTE"

\* The Markdown fence, three backquotes
Fence == <<Backquote, Backquote, Backquote>>

UpperChars == {"A", "B", "C", "D", "E", "F", "G", "H", "I", "J", "K", "L", "M",
               "N", "O", "P", "Q", "R", "S", "T", "U", "V", "W", "X", "Y", "Z"}

LowerChars == {"a", "b", "c", "d", "e", "f", "g", "h", "i", "j", "k", "l", "m",
               "n", "o", "p", "q", "r", "s", "t", "u", "v", "w", "x", "y", "z"}

\* s[n:] for n >= 0
From(s, n) == SubSeq(s, n + 1, Len(s))

RECURSIVE LStrip(_)
LStrip(s) ==
    IF s = <<>> THEN s
    ELSE IF s[1] \in Whitespace THEN LStrip(Tail(s)) ELSE s

RECURSIVE RStrip(_)
RStrip(s) ==
    IF s = <<>> THEN s
    ELSE IF s[Len(s)] \in Whitespace THEN RStrip(SubSeq(s, 1, Len(s) - 1)) ELSE s

\* s.strip()
Strip(s) == RStrip(LStrip(s))

\* s.startswith(p)
StartsWith(s, p) == Len(s) >= Len(p) /\ SubSeq(s, 1, Len(p)) = p

\* sub in s
Contains(s, sub) ==
    \E i \in 0..(Len(s) - Len(sub)) : SubSeq(s, i + 1, i + Len(sub)) = sub

\* s.find(sub): the lowest 0-based index of sub in s, or -1
Find(s, sub) ==
    IF Contains(s, sub)
    THEN CHOOSE i \in 0..(Len(s) - Len(sub)) :
            /\ SubSeq(s, i + 1, i + Len(sub)) = sub
            /\ \A j \in 0..(i - 1) : SubSeq(s, j + 1, j + Len(sub)) # sub
    ELSE -1

\* s.split(sep) for a non-empty sep: always at least one fragment
RECURSIVE Split(_, _)
Split(s, sep) ==
    LET i == Find(s, sep)
    IN  IF i = -1 THEN <<s>>
        ELSE <<SubSeq(s, 1, i)>> \o Split(From(s, i + Len(sep)), sep)

\* the first whitespace-delimited word of a string that starts with one
RECURSIVE TakeWord(_)
TakeWord(s) ==
    IF s = <<>> \/ s[1] \in Whitespace THEN <<>>
    ELSE <<s[1]>> \o TakeWord(Tail(s))

\* s.split(): the whitespace-delimited words, never an empty one
RECURSIVE SplitWords(_)
SplitWords(s) ==
    LET t == LStrip(s)
    IN  IF t = <<>> THEN <<>>
        ELSE LET w == TakeWord(t)
             IN  <<w>> \o SplitWords(From(t, Len(w)))

\* " ".join(strs)
RECURSIVE Join(_)
Join(strs) ==
    IF strs = <<>> THEN <<>>
    ELSE IF Len(strs) = 1 THEN strs[1]
    ELSE strs[1] \o <<" ">> \o Join(Tail(strs))

\* s.isupper(): some cased character, and no lowercase one
IsUpper(s) ==
    /\ \E i \in 1..Len(s) : s[i] \in UpperChars
    /\ \A i \in 1..Len(s) : s[i] \notin LowerChars

\* s.isalpha(): non-empty and all letters
IsAlpha(s) ==
    /\ s # <<>>
    /\ \A i \in 1..Len(s) : s[i] \in UpperChars \cup LowerChars

\* s.istitle(): uppercase only after uncased, lowercase only after cased,
\* and at least one cased character
IsTitle(s) ==
    /\ \E i \in 1..Len(s) : s[i] \in UpperChars \cup LowerChars
    /\ \A i \in 1..Len(s) :
          LET prev_cased == i > 1 /\ s[i - 1] \in UpperChars \cup LowerChars
          IN  /\ (s[i] \in UpperChars => ~prev_cased)
              /\ (s[i] \in LowerChars => prev_cased)

----------------------------------------------------------------------------
(* RustLine *)

DocLineType == {"NONE", "TEXT", "TEXT_HEADER", "TEXT_EMPTY",
                "CODE_BEGIN", "CODE", "CODE_END"}

ItemType == {"NONE", "FUNCTION", "STRUCT", "ENUM", "TRAIT", "TYPE", "IMPL", "USE"}

\* the item a normal line of code defines: the first keyword found wins
ItemOf(sline) ==
    IF Contains(sline, <<"f", "n", " ">>) THEN "FUNCTION"
    ELSE IF Contains(sline, <<"s", "t", "r", "u", "c", "t", " ">>) THEN "STRUCT"
    ELSE IF Contains(sline, <<"e", "n", "u", "m", " ">>) THEN "ENUM"
    ELSE IF Contains(sline, <<"t", "r", "a", "i", "t", " ">>) THEN "TRAIT"
    ELSE IF Contains(sline, <<"t", "y", "p", "e", " ">>) THEN "TYPE"
    ELSE IF \/ Contains(sline, <<"i", "m", "p", "l", " ">>)
            \/ Contains(sline, <<"i", "m", "p", "l", "<">>) THEN "IMPL"
    ELSE IF Contains(sline, <<"u", "s", "e", " ">>) THEN "USE"
    ELSE "NONE"

\* DocTypeOf with a fence always opening an example
DocTypeOfAlwaysBegin(content, flag) ==
    IF StartsWith(content, <<"#">>) THEN "TEXT_HEADER"
    ELSE IF content = <<>> THEN "TEXT_EMPTY"
    ELSE IF StartsWith(content, Fence) THEN "CODE_BEGIN"
    ELSE IF flag THEN "CODE" ELSE "TEXT"

\* the type of a doc comment line from its content and the caller's flag
DocTypeOf(content, flag) ==
    IF StartsWith(content, <<"#">>) THEN "TEXT_HEADER"
    ELSE IF content = <<>> THEN "TEXT_EMPTY"
    ELSE IF StartsWith(content, Fence)
         THEN (IF flag THEN "CODE_END" ELSE "CODE_BEGIN")
    ELSE IF flag THEN "CODE" ELSE "TEXT"

\* RustLine.__init__(raw_line, in_doctest)
RustLine(raw_line, flag) ==
    LET sline == Strip(raw_line)
    IN  IF \/ StartsWith(sline, <<"/", "/", "/">>)
           \/ StartsWith(sline, <<"/", "/", "!">>)
        THEN LET content == Strip(From(sline, 3))
                 type == DocTypeOf(content, flag)
             IN  [doc_line_type |-> type,
                  comment |-> TRUE,
                  content |-> IF type = "TEXT_HEADER"
                              THEN Strip(From(content, 1)) ELSE content,
                  item_type |-> "NONE"]
        ELSE IF StartsWith(sline, <<"/", "/">>)
        THEN [doc_line_type |-> "NONE",
              comment |-> TRUE,
              content |-> Strip(From(sline, 2)),
              item_type |-> "NONE"]
        ELSE [doc_line_type |-> "NONE",
              comment |-> FALSE,
              content |-> sline,
              item_type |-> ItemOf(sline)]

\* RustLine.is_doc_comment()
is_doc_comment(line) == line.doc_line_type # "NONE"

\* RustLine.format() with the plain comment marker glued to the content
formatGlued(line) ==
    IF is_doc_comment(line)
    THEN <<"/", "/", "/", " ">>
         \o (IF line.doc_line_type = "TEXT_HEADER" THEN <<"#", " ">> ELSE <<>>)
         \o line.content
    ELSE IF line.comment THEN <<"/", "/">> \o line.content
    ELSE line.content

\* RustLine.format()
format(line) ==
    IF is_doc_comment(line)
    THEN <<"/", "/", "/", " ">>
         \o (IF line.doc_line_type = "TEXT_HEADER" THEN <<"#", " ">> ELSE <<>>)
         \o line.content
    ELSE IF line.comment THEN <<"/", "/", " ">> \o line.content
    ELSE line.content

----------------------------------------------------------------------------
(* SourceFile *)

\* the only path the runner scans
source_path == "src/aoc/iter.rs"

\* the flag after a line: SourceFile.__init__'s update of in_doctest
NextInDoctest(rust_line, flag) ==
    IF rust_line.doc_line_type = "CODE_BEGIN" THEN TRUE
    ELSE IF rust_line.doc_line_type = "CODE_END" THEN FALSE
    ELSE flag

\* SourceFile.format_line(line_num): the path, the displayed number, the text
format_line(ls, line_num) ==
    [file_path |-> source_path,
     line |-> line_num + 1,
     text |-> format(ls[line_num + 1])]

\* doc_comment_lines without the look at the line before
RECURSIVE DocLinesFromEveryDoc(_, _)
DocLinesFromEveryDoc(ls, ln) ==
    IF ln >= Len(ls) THEN <<>>
    ELSE (IF is_doc_comment(ls[ln + 1]) THEN <<ln>> ELSE <<>>)
         \o DocLinesFromEveryDoc(ls, ln + 1)

doc_comment_linesEveryDoc(ls) == DocLinesFromEveryDoc(ls, 0)

\* the generator's loop from line ln on
RECURSIVE DocLinesFrom(_, _)
DocLinesFrom(ls, ln) ==
    IF ln >= Len(ls) THEN <<>>
    ELSE (IF /\ is_doc_comment(ls[ln + 1])
             /\ (ln = 0 \/ ~is_doc_comment(ls[ln]))
          THEN <<ln>> ELSE <<>>)
         \o DocLinesFrom(ls, ln + 1)

\* SourceFile.doc_comment_lines(): the line numbers it yields, in order
doc_comment_lines(ls) == DocLinesFrom(ls, 0)

----------------------------------------------------------------------------
(* The lints.  check_file gives the line numbers alerted, in order, and     *)
(* whether it ended by raising IndexError (alerts printed before stay).     *)

Result(alerts, raised) == [alerts |-> alerts, raised |-> raised]

\* n copies of ln
RECURSIVE Repeat(_, _)
Repeat(ln, n) == IF n = 0 THEN <<>> ELSE <<ln>> \o Repeat(ln, n - 1)

(* IsolatedIntroLint *)

\* long_line: the following TEXT lines appended, from line i on
RECURSIVE IntroText(_, _, _)
IntroText(ls, i, long_line) ==
    IF i >= Len(ls) \/ ls[i + 1].doc_line_type # "TEXT" THEN long_line
    ELSE IntroText(ls, i + 1, long_line \o <<" ">> \o ls[i + 1].content)

\* the loop over the parts after the first: part[0] raises on an empty part
RECURSIVE ScanParts(_)
ScanParts(parts) ==
    IF parts = <<>> THEN "ok"
    ELSE IF parts[1] = <<>> THEN "raise"
    ELSE IF parts[1][1] \in UpperChars THEN "alert"
    ELSE ScanParts(Tail(parts))

IntroCheck(ls, ln) ==
    ScanParts(Tail(Split(IntroText(ls, ln + 1, ls[ln + 1].content), <<".", " ">>)))

RECURSIVE IsolatedIntroBlocks(_, _, _)
IsolatedIntroBlocks(ls, starts, alerts) ==
    IF starts = <<>> THEN Result(alerts, FALSE)
    ELSE LET r == IntroCheck(ls, starts[1])
         IN  IF r = "raise" THEN Result(alerts, TRUE)
             ELSE IsolatedIntroBlocks(ls, Tail(starts),
                    IF r = "alert" THEN Append(alerts, starts[1]) ELSE alerts)

\* IsolatedIntroLint.check_file
IsolatedIntroLint_check_file(ls) ==
    IsolatedIntroBlocks(ls, doc_comment_lines(ls), <<>>)

(* CompleteSentencesLint *)

\* the grouping loop over lines[ln:], from line i on
RECURSIVE SectionsFrom(_, _, _, _)
SectionsFrom(ls, i, text_lines, sections) ==
    IF i >= Len(ls) THEN sections
    ELSE LET lline == ls[i + 1]
         IN  IF lline.doc_line_type = "TEXT"
             THEN SectionsFrom(ls, i + 1, Append(text_lines, lline.content), sections)
             ELSE LET added == IF Len(text_lines) > 0
                               THEN Append(sections, text_lines) ELSE sections
                  IN  IF lline.doc_line_type = "NONE" THEN added
                      ELSE SectionsFrom(ls, i + 1, <<>>, added)

\* the loop over the sentences of a section: words[0] raises on no words
RECURSIVE ScanSentences(_)
ScanSentences(sentences) ==
    IF sentences = <<>> THEN "ok"
    ELSE LET words == SplitWords(sentences[1])
         IN  IF words = <<>> THEN "raise"
             ELSE IF IsAlpha(words[1]) /\ ~IsUpper(words[1]) /\ ~IsTitle(words[1])
             THEN "alert"
             ELSE ScanSentences(Tail(sentences))

\* one section: the number of alerts (0..2) and whether it raised
SectionCheck(section) ==
    LET sentences == Split(Join(section), <<".", " ">>)
        first == ScanSentences(sentences)
        n == IF first = "alert" THEN 1 ELSE 0
        last == sentences[Len(sentences)]
    IN  IF first = "raise" THEN [n |-> 0, raised |-> TRUE]
        ELSE IF last = <<>> THEN [n |-> n, raised |-> TRUE]
        ELSE IF last[Len(last)] # "." THEN [n |-> n + 1, raised |-> FALSE]
        ELSE [n |-> n, raised |-> FALSE]

RECURSIVE CompleteSections(_, _, _)
CompleteSections(sections, ln, alerts) ==
    IF sections = <<>> THEN Result(alerts, FALSE)
    ELSE LET r == SectionCheck(sections[1])
         IN  IF r.raised THEN Result(alerts \o Repeat(ln, r.n), TRUE)
             ELSE CompleteSections(Tail(sections), ln, alerts \o Repeat(ln, r.n))

RECURSIVE CompleteBlocks(_, _, _)
CompleteBlocks(ls, starts, alerts) ==
    IF starts = <<>> THEN Result(alerts, FALSE)
    ELSE LET r == CompleteSections(SectionsFrom(ls, starts[1], <<>>, <<>>),
                                   starts[1], alerts)
         IN  IF r.raised THEN r
             ELSE CompleteBlocks(ls, Tail(starts), r.alerts)

\* CompleteSentencesLint.check_file
CompleteSentencesLint_check_file(ls) ==
    CompleteBlocks(ls, doc_comment_lines(ls), <<>>)

(* CrossRefLint *)

\* the while loop over one line's content: split[1] raises without a "]"
RECURSIVE ScanRefs(_, _)
ScanRefs(content, n) ==
    LET idx == Find(content, <<"[">>)
    IN  IF idx = -1 THEN [n |-> n, raised |-> FALSE]
        ELSE LET rest == From(content, idx + 1)
                 split == Split(rest, <<"]">>)
             IN  IF Len(split) < 2 THEN [n |-> n, raised |-> TRUE]
                 ELSE ScanRefs(rest,
                        IF /\ ~StartsWith(split[2], <<"(">>)
                           /\ ~StartsWith(split[1], <<Backquote>>)
                        THEN n + 1 ELSE n)

RECURSIVE CrossRefLines(_, _, _)
CrossRefLines(ls, ln, alerts) ==
    IF ln >= Len(ls) THEN Result(alerts, FALSE)
    ELSE IF ls[ln + 1].doc_line_type \in {"TEXT", "TEXT_HEADER"}
    THEN LET r == ScanRefs(ls[ln + 1].content, 0)
         IN  IF r.raised THEN Result(alerts \o Repeat(ln, r.n), TRUE)
             ELSE CrossRefLines(ls, ln + 1, alerts \o Repeat(ln, r.n))
    ELSE CrossRefLines(ls, ln + 1, alerts)

\* CrossRefLint.check_file
CrossRefLint_check_file(ls) == CrossRefLines(ls, 0, <<>>)

(* FunctionIntroVerbLint *)

\* the first line from i on that is a doc comment or defines an item, or -1
RECURSIVE ItemLineFrom(_, _)
ItemLineFrom(ls, i) ==
    IF i >= Len(ls) THEN -1
    ELSE IF is_doc_comment(ls[i + 1]) \/ ls[i + 1].item_type # "NONE" THEN i
    ELSE ItemLineFrom(ls, i + 1)

\* one doc comment: first_word = line.content.split()[0] raises on no words
VerbCheck(ls, ln) ==
    LET i == ItemLineFrom(ls, ln + 1)
    IN  IF i = -1 \/ ls[i + 1].item_type # "FUNCTION" THEN "ok"
        ELSE LET words == SplitWords(ls[ln + 1].content)
             IN  IF words = <<>> THEN "raise"
                 ELSE IF ~IsTitle(words[1]) \/ words[1][Len(words[1])] # "s"
                 THEN "alert"
                 ELSE "ok"

RECURSIVE FunctionIntroVerbBlocks(_, _, _)
FunctionIntroVerbBlocks(ls, starts, alerts) ==
    IF starts = <<>> THEN Result(alerts, FALSE)
    ELSE LET r == VerbCheck(ls, starts[1])
         IN  IF r = "raise" THEN Result(alerts, TRUE)
             ELSE FunctionIntroVerbBlocks(ls, Tail(starts),
                    IF r = "alert" THEN Append(alerts, starts[1]) ELSE alerts)

\* FunctionIntroVerbLint.check_file
FunctionIntroVerbLint_check_file(ls) ==
    FunctionIntroVerbBlocks(ls, doc_comment_lines(ls), <<>>)

\* the registered lints, in order
lints == <<"isolated_intro_sentence", "cross_ref_code",
           "complete_sentences", "function_intro_verb">>

\* Lint.alert for each line number alerted: what the lint prints
RECURSIVE Alerts(_, _, _)
Alerts(name, ls, alerts) ==
    IF alerts = <<>> THEN <<>>
    ELSE <<[name |-> name] @@ format_line(ls, alerts[1])>>
         \o Alerts(name, ls, Tail(alerts))

----------------------------------------------------------------------------
(* The files the model reads: raw lines as the file iterator gives them.    *)

\* /// followed by a fence
FenceLine == <<"/", "/", "/", " ", Backquote, Backquote, Backquote>>

\* /// Return x.
ReturnLine == <<"/", "/", "/", " ", "R", "e", "t", "u", "r", "n", " ", "x", ".">>

\* /// Returns x.   (indented, with its line end)
ReturnsLine == <<" ", " ", "/", "/", "/", " ", "R", "e", "t", "u", "r", "n", "s",
                 " ", "x", ".", "\n">>

\* fn f() {}
FnLine == <<"f", "n", " ", "f", "(", ")", " ", "{", "}">>

\* ///
EmptyDocLine == <<"/", "/", "/">>

\* /// A. . B
DotDotLine == <<"/", "/", "/", " ", "A", ".", " ", ".", " ", "B">>

\* /// [a
OpenBracketLine == <<"/", "/", "/", " ", "[", "a">>

\* /// See [Foo].
SeeFooLine == <<"/", "/", "/", " ", "S", "e", "e", " ", "[", "F", "o", "o", "]", ".">>

\* //! [Foo] in code font, then the link [Foo](x), then a period
CodeRefLine == <<"/", "/", "!", " ", "[", Backquote, "F", "o", "o", Backquote, "]",
                 " ", "[", "F", "o", "o", "]", "(", "x", ")", ".">>

\* /// # let v = [1];
HiddenLine == <<"/", "/", "/", " ", "#", " ", "l", "e", "t", " ", "v", " ", "=",
                " ", "[", "1", "]", ";">>

\* /// Sum. This.
TwoSentenceLine == <<"/", "/", "/", " ", "S", "u", "m", ".", " ", "T", "h", "i", "s", ".">>

\* /// Sum
NoPeriodLine == <<"/", "/", "/", " ", "S", "u", "m">>

\* struct S;
StructLine == <<"s", "t", "r", "u", "c", "t", " ", "S", ";">>

\* // followed by a fence: a plain comment
PlainCommentLine == <<"/", "/", " ", Backquote, Backquote, Backquote>>

\* /// followed by a fence and the word rust
InfoFenceLine == <<"/", "/", "/", " ", Backquote, Backquote, Backquote, "r", "u", "s", "t">>

RawLines == {FenceLine, ReturnLine, ReturnsLine, FnLine, EmptyDocLine, DotDotLine,
             OpenBracketLine, SeeFooLine, CodeRefLine, HiddenLine, TwoSentenceLine,
             NoPeriodLine, StructLine, PlainCommentLine, InfoFenceLine}

\* the characters of the exhaustive round-trip inputs
RawChars == {"/", "!", " ", "#", Backquote, "a"}

\* every raw line over RawChars of at most MaxRawLen characters
RawStrings == UNION {[1..n -> RawChars] : n \in 0..MaxRawLen}

----------------------------------------------------------------------------
(* The runner: SourceFile(source_path), then every lint in order.           *)

Init ==
    /\ pc = "open"
    /\ readable \in BOOLEAN
    /\ file = <<>>
    /\ lines = <<>>
    /\ in_doctest = FALSE
    /\ lint_idx = 1
    /\ output = <<>>
    /\ exception = "none"

\* open(file_path, "r"): an OSError is caught nowhere
Open ==
    /\ pc = "open"
    /\ IF readable
       THEN /\ pc' = "read"
            /\ exception' = exception
       ELSE /\ pc' = "uncaught"
            /\ exception' = "OSError"
    /\ in_doctest' = FALSE
    /\ lines' = <<>>
    /\ UNCHANGED <<readable, file, lint_idx, output>>

\* one turn of the loop "for line in f"
ReadLine ==
    /\ pc = "read"
    /\ Len(file) < MaxLines
    /\ \E raw_line \in RawLines :
          LET rust_line == RustLine(raw_line, in_doctest)
          IN  /\ file' = Append(file, raw_line)
              /\ in_doctest' = NextInDoctest(rust_line, in_doctest)
              /\ lines' = Append(lines, rust_line)
    /\ UNCHANGED <<pc, readable, lint_idx, output, exception>>

\* the file is exhausted: the SourceFile is built and the lints start
EndOfFile ==
    /\ pc = "read"
    /\ pc' = "lint"
    /\ lint_idx' = 1
    /\ UNCHANGED <<readable, file, lines, in_doctest, output, exception>>

\* lint.check_file(source_file) for the lint at lint_idx
RunLint(k, result) ==
    /\ pc = "lint"
    /\ lint_idx = k
    /\ output' = output \o Alerts(lints[k], lines, result.alerts)
    /\ IF result.raised
       THEN /\ pc' = "uncaught"
            /\ exception' = "IndexError"
            /\ lint_idx' = lint_idx
       ELSE /\ pc' = IF k = Len(lints) THEN "done" ELSE "lint"
            /\ exception' = exception
            /\ lint_idx' = IF k = Len(lints) THEN lint_idx ELSE k + 1
    /\ UNCHANGED <<readable, file, lines, in_doctest>>

CheckIsolatedIntro == RunLint(1, IsolatedIntroLint_check_file(lines))

CheckCrossRef == RunLint(2, CrossRefLint_check_file(lines))

CheckCompleteSentences == RunLint(3, CompleteSentencesLint_check_file(lines))

CheckFunctionIntroVerb == RunLint(4, FunctionIntroVerbLint_check_file(lines))

Next ==
    \/ Open
    \/ ReadLine
    \/ EndOfFile
    \/ CheckIsolatedIntro
    \/ CheckCrossRef
    \/ CheckCompleteSentences
    \/ CheckFunctionIntroVerb

Spec == Init /\ [][Next]_vars

----------------------------------------------------------------------------
(* The round trip of one line: classify, format_line, classify again.       *)

InitFormat ==
    /\ pc = "classify"
    /\ readable = TRUE
    /\ file \in {<<raw_line>> : raw_line \in RawStrings}
    /\ lines = <<>>
    /\ in_doctest \in BOOLEAN
    /\ lint_idx = 1
    /\ output = <<>>
    /\ exception = "none"

Classify ==
    /\ pc = "classify"
    /\ lines' = <<RustLine(file[1], in_doctest)>>
    /\ pc' = "format"
    /\ UNCHANGED <<readable, file, in_doctest, lint_idx, output, exception>>

FormatLine ==
    /\ pc = "format"
    /\ output' = <<format_line(lines, 0)>>
    /\ pc' = "reclassify"
    /\ UNCHANGED <<readable, file, lines, in_doctest, lint_idx, exception>>

Reclassify ==
    /\ pc = "reclassify"
    /\ lines' = Append(lines, RustLine(output[1].text, FALSE))
    /\ pc' = "done"
    /\ UNCHANGED <<readable, file, in_doctest, lint_idx, output, exception>>

NextFormat == Classify \/ FormatLine \/ Reclassify

SpecFormat == InitFormat /\ [][NextFormat]_vars

----------------------------------------------------------------------------
(* What the properties below speak of. *)

\* the lint at index k of lints has been run on the file (it may have raised)
LintRan(k) ==
    \/ pc = "done"
    \/ pc = "lint" /\ lint_idx > k
    \/ pc = "uncaught" /\ exception = "IndexError" /\ lint_idx >= k

\* the lint at index k of lints has been run on the file and has returned
LintReturned(k) ==
    \/ pc = "done"
    \/ pc = "lint" /\ lint_idx > k
    \/ pc = "uncaught" /\ exception = "IndexError" /\ lint_idx > k

\* how many alerts of the named lint were printed for line number ln (0-based)
AlertCount(name, ln) ==
    Cardinality({k \in 1..Len(output) :
                    output[k].name = name /\ output[k].line = ln + 1})

\* the maximal runs of doc comment lines of ls, as pairs of 1-based positions
DocRuns(ls) ==
    {r \in (1..Len(ls)) \X (1..Len(ls)) :
        /\ r[1] <= r[2]
        /\ \A k \in r[1]..r[2] : is_doc_comment(ls[k])
        /\ (r[1] = 1 \/ ~is_doc_comment(ls[r[1] - 1]))
        /\ (r[2] = Len(ls) \/ ~is_doc_comment(ls[r[2] + 1]))}

\* the maximal runs of TEXT lines of ls within positions a..b
TextRuns(ls, a, b) ==
    {r \in (a..b) \X (a..b) :
        /\ r[1] <= r[2]
        /\ \A k \in r[1]..r[2] : ls[k].doc_line_type = "TEXT"
        /\ (r[1] = a \/ ls[r[1] - 1].doc_line_type # "TEXT")
        /\ (r[2] = b \/ ls[r[2] + 1].doc_line_type # "TEXT")}

\* the contents of the lines at positions a..b, in order
Contents(ls, a, b) == [k \in 1..(b - a + 1) |-> ls[a + k - 1].content]

\* a raw line is a doc comment whose content opens with the fence
IsFenceLine(raw_line) ==
    LET sline == Strip(raw_line)
    IN  /\ StartsWith(sline, <<"/", "/", "/">>) \/ StartsWith(sline, <<"/", "/", "!">>)
        /\ StartsWith(Strip(From(sline, 3)), Fence)

FencePositions(f) == {i \in 1..Len(f) : IsFenceLine(f[i])}

\* the kind of a line, in the words of the specification
Kind(line) ==
    IF line.doc_line_type = "TEXT" THEN "DocText"
    ELSE IF line.doc_line_type # "NONE" THEN line.doc_line_type
    ELSE IF line.comment THEN "PlainComment"
    ELSE "Code"

----------------------------------------------------------------------------
(* C1: while SourceFile is built the in-example flag starts false, is       *)
(* flipped by every doc comment line whose content opens with the fence    *)
(* and by no other line; so the fence lines are classified CODE_BEGIN,     *)
(* CODE_END, CODE_BEGIN, ... in file order, starting with CODE_BEGIN, and   *)
(* no other line is classified as either.                                  *)
C1_FencesAlternate ==
    /\ Len(lines) = Len(file)
    /\ in_doctest = (Cardinality(FencePositions(file)) % 2 = 1)
    /\ \A i \in 1..Len(lines) :
          LET rank == Cardinality({j \in FencePositions(file) : j <= i})
          IN  IF i \in FencePositions(file)
              THEN lines[i].doc_line_type =
                      (IF rank % 2 = 1 THEN "CODE_BEGIN" ELSE "CODE_END")
              ELSE lines[i].doc_line_type \notin {"CODE_BEGIN", "CODE_END"}

\* a fence closes an example that an earlier fence opened, with an example
\* line in between
C1_Witness ==
    /\ Len(lines) = 3
    /\ lines[1].doc_line_type = "CODE_BEGIN"
    /\ lines[2].doc_line_type = "CODE"
    /\ lines[3].doc_line_type = "CODE_END"
    /\ ~in_doctest

(* C2: doc_comment_lines() yields exactly one line per maximal run of doc   *)
(* comment lines, the first line of the run, in ascending order; the       *)
(* number of lines yielded is the number of maximal runs.                  *)
C2_OneStartPerRun ==
    LET yielded == doc_comment_lines(lines)
    IN  /\ Len(yielded) = Cardinality(DocRuns(lines))
        /\ {yielded[k] + 1 : k \in 1..Len(yielded)} = {r[1] : r \in DocRuns(lines)}
        /\ \A k \in 1..(Len(yielded) - 1) : yielded[k] < yielded[k + 1]

\* a file with a run of two doc comment lines, which yields its first line only
C2_Witness ==
    /\ pc = "lint"
    /\ \E r \in DocRuns(lines) : r[2] > r[1]
    /\ Len(doc_comment_lines(lines)) = 1

(* C8: a line classified outside an example block as DocText, PlainComment *)
(* or Code, reconstructed by format (the text of format_line) and          *)
(* classified again with the flag false, has the same kind and the same    *)
(* content.                                                                *)
C8_RoundTrip ==
    (/\ pc = "done"
     /\ ~in_doctest
     /\ Kind(lines[1]) \in {"DocText", "PlainComment", "Code"})
    => /\ Kind(lines[2]) = Kind(lines[1])
       /\ lines[2].content = lines[1].content

\* a plain comment with content whose reconstruction is not the raw line
C8_Witness ==
    /\ pc = "done"
    /\ ~in_doctest
    /\ Kind(lines[1]) = "PlainComment"
    /\ lines[1].content # <<>>
    /\ output[1].text # file[1]
    /\ Kind(lines[2]) = "PlainComment"

(* C3: check_file of each of the four registered lints returns without     *)
(* raising, whatever the classified file holds.                            *)
C3_LintsNeverRaise == exception # "IndexError"

(* C9: a file that cannot be opened does not end the run with an uncaught  *)
(* exception: the runner reports the failure and finishes normally.        *)
C9_OpenFailureHandled == ~readable => pc # "uncaught"

(* C4: for every doc comment of one or more lines that immediately         *)
(* precedes a function line, function_intro_verb, once it has returned,    *)
(* has alerted at the comment's first line exactly when the first word of  *)
(* that line is not title-case or does not end in the letter s.            *)
C4_FunctionVerbChecked ==
    LintReturned(4) =>
        \A r \in DocRuns(lines) :
            LET words == SplitWords(lines[r[1]].content)
            IN  (/\ r[2] < Len(lines)
                 /\ lines[r[2] + 1].item_type = "FUNCTION"
                 /\ words # <<>>)
                => ((AlertCount("function_intro_verb", r[1] - 1) > 0)
                    <=> (~IsTitle(words[1]) \/ words[1][Len(words[1])] # "s"))

(* C5: for every doc comment and every maximal run of TEXT lines in it,    *)
(* also a run that the end of the file ends, complete_sentences, once it   *)
(* has returned, has alerted at the comment's first line when the last     *)
(* sentence of the run does not end with a period.                         *)
C5_MissingPeriodReported ==
    LintReturned(3) =>
        \A r \in DocRuns(lines) :
            \A t \in TextRuns(lines, r[1], r[2]) :
                LET sentences == Split(Join(Contents(lines, t[1], t[2])), <<".", " ">>)
                    last == sentences[Len(sentences)]
                IN  (last = <<>> \/ last[Len(last)] # ".")
                    => AlertCount("complete_sentences", r[1] - 1) > 0

(* C6: for every doc comment, isolated_intro_sentence alerts exactly once  *)
(* at its first line if some fragment after the first of the intro text    *)
(* (the first line's content and the contents of the TEXT lines right      *)
(* after it, joined by spaces and split on ". ") begins with an uppercase  *)
(* character, and not at all otherwise.                                    *)
C6_IntroReportedOnce ==
    LintRan(1) =>
        \A r \in DocRuns(lines) :
            LET after == {t \in TextRuns(lines, r[1] + 1, r[2]) : t[1] = r[1] + 1}
                last == IF after = {} THEN r[1] ELSE (CHOOSE t \in after : TRUE)[2]
                parts == Split(Join(Contents(lines, r[1], last)), <<".", " ">>)
                second == \E k \in 2..Len(parts) :
                             parts[k] # <<>> /\ parts[k][1] \in UpperChars
            IN  AlertCount("isolated_intro_sentence", r[1] - 1)
                    = IF second THEN 1 ELSE 0

\* the positions of content that hold the character c
PositionsOf(content, c) == {p \in 1..Len(content) : content[p] = c}

\* the position of the first "]" after position p
Closing(content, p) ==
    CHOOSE q \in PositionsOf(content, "]") :
        q > p /\ \A q2 \in PositionsOf(content, "]") : q2 > p => q <= q2

\* the "[" of content that are neither in code font nor Markdown links
PlainRefs(content) ==
    {p \in PositionsOf(content, "[") :
        LET q == Closing(content, p)
        IN  /\ ~StartsWith(SubSeq(content, p + 1, q - 1), <<Backquote>>)
            /\ ~(q < Len(content) /\ content[q + 1] = "(")}

(* C7: for every TEXT or TEXT_HEADER line in which every "[" has a "]"     *)
(* after it, cross_ref_code alerts for that line once per "[" whose text   *)
(* up to the next "]" does not begin with a backquote and whose closing    *)
(* "]" is not immediately followed by "(".                                 *)
C7_RefsReportedPerBracket ==
    LintRan(2) =>
        \A i \in 1..Len(lines) :
            LET content == lines[i].content
            IN  (/\ lines[i].doc_line_type \in {"TEXT", "TEXT_HEADER"}
                 /\ \A p \in PositionsOf(content, "[") :
                       \E q \in PositionsOf(content, "]") : q > p)
                => AlertCount("cross_ref_code", i - 1)
                       = Cardinality(PlainRefs(content))

\* position i lies strictly between a CODE_BEGIN line and the next CODE_END line
InsideExample(ls, i) ==
    \E b \in 1..(i - 1) :
        /\ ls[b].doc_line_type = "CODE_BEGIN"
        /\ \A k \in (b + 1)..i : ls[k].doc_line_type # "CODE_END"
        /\ \E e \in (i + 1)..Len(ls) : ls[e].doc_line_type = "CODE_END"

(* C10: cross_ref_code never alerts for a doc comment line that lies       *)
(* strictly between a CODE_BEGIN line and the next CODE_END line.          *)
C10_NoAlertInsideExample ==
    \A k \in 1..Len(output) :
        output[k].name = "cross_ref_code" => ~InsideExample(lines, output[k].line)

====
